---------------------------- MODULE Spec2Model ----------------------------
(*************************************************************************)
(* fdmom.Watch: supervision of file descriptors for read availability,   *)
(* with its two backends, kqueue(2) (src/kqueue.go) and epoll(7)         *)
(* (src/unnamed/part_001).  One Watch, the kernel queue it owns, the     *)
(* monitored descriptors and the single caller thread that operates it.  *)
(*                                                                       *)
(* Integers are scaled down: a Go int / time.Duration has WordBits bits, *)
(* a C int (the timeout argument of epoll_wait(2), EpollEvent.Fd) has    *)
(* CIntBits bits, and time.Millisecond is Millisecond clock units.  The  *)
(* scaling keeps what the real widths give: a Duration holds more        *)
(* milliseconds than a C int does (2^63 / 10^6 > 2^31).                  *)
(*************************************************************************)
EXTENDS Integers, Sequences, FiniteSets, TLC

\* ---------------------------------------------------------------- bounds
NumFD == 2          \* pipe read ends 1..NumFD; descriptor 0 is a regular file
WordBits == 7       \* scaled width of int, uint, int64, time.Duration
CIntBits == 4       \* scaled width of a C int, int32
Millisecond == 2    \* scaled time.Millisecond, in clock units (nanoseconds)
MaxIntr == 1        \* EINTR deliveries modelled per native wait loop
RRBits == 2         \* scaled width of the int Watch.roundRobin

\* ------------------------------------------------------- integer helpers
RECURSIVE Pow2(_)
Pow2(n) == IF n = 0 THEN 1 ELSE 2 * Pow2(n - 1)

\* two's complement wrap of x to a signed integer of the given width
WrapSigned(x, bits) ==
    LET m == Pow2(bits)
        r == x % m
    IN  IF r >= m \div 2 THEN r - m ELSE r

\* wrap of x to an unsigned integer of the given width
WrapUnsigned(x, bits) == x % Pow2(bits)

\* Go's integer division truncates toward zero
TruncDiv(a, b) ==
    IF a >= 0 THEN a \div b ELSE -((-a) \div b)

\* Go's remainder has the sign of the dividend
TruncRem(a, b) == a - b * TruncDiv(a, b)

MinDuration == -Pow2(WordBits - 1)
MaxDuration == Pow2(WordBits - 1) - 1
Durations == MinDuration..MaxDuration

Range(s) == {s[i] : i \in 1..Len(s)}

NoDup(s) == \A i, j \in 1..Len(s) : i # j => s[i] # s[j]

\* -------------------------------------------------------------- the state
VARIABLES
    backend,     \* "kqueue" or "epoll": the build's Watch implementation
    queueOpen,   \* the handle in Watch.queueFD / Watch.epollFD is a live queue
    handle,      \* what the handle number names: the queue OpenWatch made
                 \* ("own"), no open file ("none"), another Watch's queue
                 \* ("other")
    roundRobin,  \* Watch.roundRobin (kqueue backend)
    members,     \* the kernel queue's interest list
    rdlist,      \* the kernel queue's list of active entries, head first
    pending,     \* pipe read end -> it has unread data
    included,    \* the watch list as the caller knows it
    pc,          \* the caller thread: "idle" or "await" (blocked in the wait)
    arg,         \* the current or last call: [op, fd, timeout]
    ret,         \* the result of the last call that returned: [fd, err]
    elapsed,     \* clock units the current or last call has been blocked
    nelapsed,    \* clock units the current native wait has been blocked
    intr         \* EINTR deliveries to the current call

vars == <<backend, queueOpen, handle, roundRobin, members, rdlist, pending,
          included, pc, arg, ret, elapsed, nelapsed, intr>>

kernelVars == <<members, rdlist>>
callVars == <<pc, arg, ret, elapsed, nelapsed, intr>>

\* descriptor 0 is a regular file, the others are pipe read ends
RegFD == 0
\* the descriptors the process has open
FDs == {RegFD} \cup DOMAIN pending
\* a descriptor number that is not open
BadFD == -1

\* ------------------------------------------------- conversions of the code
\* uint64(uint(fd)): the kevent identifier of a descriptor
Ident64(fd) == WrapUnsigned(fd, WordBits)

\* int(buf[i].Ident): the descriptor of a kevent identifier
IdentToFD(ident) == WrapSigned(ident, WordBits)

\* int32(fd) into EpollEvent.Fd, and int(buf[0].Fd) back
EpollFd(fd) == WrapSigned(fd, CIntBits)

\* syscall.NsecToTimespec(int64(timeout)); a second is two scaled milliseconds
Second == 2 * Millisecond
NsecToTimespec(nsec) ==
    [Sec |-> TruncDiv(nsec, Second), Nsec |-> TruncRem(nsec, Second)]

\* the native timeout of kevent(2), in clock units; -1 blocks indefinitely
KqueueTimeout(timeout) ==
    LET ts == NsecToTimespec(timeout)
    IN  IF timeout >= 0 THEN ts.Sec * Second + ts.Nsec ELSE -1

\* the conversion rounding past the next millisecond: timeout / ms + 1
EpollMsecPlusOne(timeout) ==
    LET sum == WrapSigned(timeout + Millisecond, WordBits)
        msec == TruncDiv(sum, Millisecond)
    IN  IF timeout < 0 THEN -1 ELSE msec

\* msec := int((timeout + time.Millisecond - 1) / time.Millisecond), -1 when
\* timeout < 0; Duration arithmetic wraps
EpollMsec(timeout) ==
    LET sum == WrapSigned(timeout + Millisecond - 1, WordBits)
        msec == TruncDiv(sum, Millisecond)
    IN  IF timeout < 0 THEN -1 ELSE msec

\* epoll_wait(2) takes its timeout as a C int; a negative one blocks
\* indefinitely.  The native timeout in clock units, -1 for indefinite.
EpollTimeout(timeout) ==
    LET ctimeout == WrapSigned(EpollMsec(timeout), CIntBits)
    IN  IF ctimeout < 0 THEN -1 ELSE ctimeout * Millisecond

NativeTimeout(be, timeout) ==
    IF be = "kqueue" THEN KqueueTimeout(timeout) ELSE EpollTimeout(timeout)

\* ------------------------------------------------------ the kernel queue
\* the read filter of a descriptor: a pipe with unread data; the regular file
\* is held at its end, where a read filter finds nothing
HasData(pend, fd) == fd \in DOMAIN pend /\ pend[fd]

\* the pass of a one-shot queue: a reported entry is not put back
RECURSIVE ScanFromOneShot(_, _, _, _)
ScanFromOneShot(rest, events, k, pend) ==
    IF rest = <<>> \/ Len(events) = k
    THEN [events |-> events, queue |-> rest]
    ELSE IF HasData(pend, Head(rest))
         THEN ScanFromOneShot(Tail(rest), Append(events, Head(rest)), k, pend)
         ELSE ScanFromOneShot(Tail(rest), events, k, pend)

\* One pass over the active list q for at most k events, as kqueue_scan and
\* ep_send_events do: entries are taken from the head; one without data is
\* dropped from the list, one with data is reported and, being
\* level-triggered, put back at the tail.
RECURSIVE ScanFrom(_, _, _, _)
ScanFrom(rest, events, k, pend) ==
    IF rest = <<>> \/ Len(events) = k
    THEN [events |-> events, queue |-> rest \o events]
    ELSE IF HasData(pend, Head(rest))
         THEN ScanFrom(Tail(rest), Append(events, Head(rest)), k, pend)
         ELSE ScanFrom(Tail(rest), events, k, pend)

Scan(q, k, pend) == ScanFrom(q, <<>>, k, pend)

\* an entry becomes active: it joins the tail of the list unless it is on it
Activate(q, fd) == IF fd \in Range(q) THEN q ELSE Append(q, fd)

Unlink(q, fd) == SelectSeq(q, LAMBDA x : x # fd)

ZeroKevent == [Ident |-> 0, Flags |-> {}, Data |-> "0"]

\* kqueue_register for one change {Ident, Flags: EV_ADD or EV_DELETE,
\* Filter: EVFILT_READ}: errno, interest list and active list after it
KqueueRegister(ident, flag) ==
    IF ident \notin FDs
    THEN [errno |-> "EBADF", members |-> members, rdlist |-> rdlist]
    ELSE IF flag = "EV_ADD"
    THEN [errno |-> "nil", members |-> members \cup {ident},
          rdlist |-> IF HasData(pending, ident) THEN Activate(rdlist, ident)
                     ELSE rdlist]
    ELSE IF ident \notin members
    THEN [errno |-> "ENOENT", members |-> members, rdlist |-> rdlist]
    ELSE [errno |-> "nil", members |-> members \ {ident},
          rdlist |-> Unlink(rdlist, ident)]

\* kevent(2) with one change, room for one event and a zero timeout.  A
\* change that fails is reported in the event list with EV_ERROR and nothing
\* is scanned; otherwise the active list is scanned for one event.  sig: the
\* call is interrupted after the change was applied (EINTR, n = -1).
KeventChange(change, sig) ==
    LET ident == change.Ident
        reg == KqueueRegister(ident, change.Flags)
        scan == Scan(reg.rdlist, 1, pending)
    IN  IF ~queueOpen
        THEN [n |-> -1, err |-> "EBADF", event |-> ZeroKevent,
              members |-> members, rdlist |-> rdlist]
        ELSE IF reg.errno # "nil"
        THEN [n |-> 1, err |-> "nil",
              event |-> [Ident |-> ident, Flags |-> {"EV_ERROR"}, Data |-> reg.errno],
              members |-> members, rdlist |-> rdlist]
        ELSE IF sig
        THEN [n |-> -1, err |-> "EINTR", event |-> ZeroKevent,
              members |-> reg.members, rdlist |-> reg.rdlist]
        ELSE [n |-> Len(scan.events), err |-> "nil",
              event |-> IF scan.events = <<>> THEN ZeroKevent
                        ELSE [Ident |-> scan.events[1], Flags |-> {"EV_ADD"},
                              Data |-> "1"],
              members |-> reg.members, rdlist |-> scan.queue]

\* epoll_ctl(2) with EPOLL_CTL_ADD or EPOLL_CTL_DEL for EPOLLIN: errno,
\* interest list and ready list after it.  The target is checked before the
\* operation: EBADF for no open file, EPERM for a file without poll support.
EpollCtl(op, fd) ==
    LET same == [members |-> members, rdlist |-> rdlist]
    IN  IF ~queueOpen \/ fd \notin FDs
        THEN [errno |-> "EBADF"] @@ same
        ELSE IF fd = RegFD
        THEN [errno |-> "EPERM"] @@ same
        ELSE IF op = "EPOLL_CTL_ADD"
        THEN IF fd \in members
             THEN [errno |-> "EEXIST"] @@ same
             ELSE [errno |-> "nil", members |-> members \cup {fd},
                   rdlist |-> IF HasData(pending, fd) THEN Activate(rdlist, fd)
                              ELSE rdlist]
        ELSE IF fd \notin members
             THEN [errno |-> "ENOENT"] @@ same
             ELSE [errno |-> "nil", members |-> members \ {fd},
                   rdlist |-> Unlink(rdlist, fd)]

\* ------------------------------------------------------------ the errors
Err(kind, errno) == [kind |-> kind, errno |-> errno]
NilErr == Err("nil", "nil")
ErrTimeout == Err("ErrTimeout", "nil")
ErrClosed == Err("ErrClosed", "nil")
ErrWatchable == Err("ErrWatchable", "nil")
\* fmt.Errorf("... error %w", err)
Wrapped(errno) == Err("wrapped", errno)

\* a call that does not block: its frame and its result
Returns(op, fd, timeout, rfd, err) ==
    /\ pc' = "idle"
    /\ arg' = [op |-> op, fd |-> fd, timeout |-> timeout]
    /\ ret' = [fd |-> rfd, err |-> err]
    /\ elapsed' = 0
    /\ nelapsed' = 0
    /\ intr' = 0

\* the watch list the caller knows: a call that returned nil changed it
Noted(fd, err, in) ==
    IF err # NilErr THEN included
    ELSE IF in THEN included \cup {fd} ELSE included \ {fd}

\* -------------------------------------------------------------- IncludeFD
\* kqueue: events[0], the change IncludeFD submits
KqueueIncludeChange(fd64) ==
    [Ident |-> fd64, Flags |-> "EV_ADD", Filter |-> "EVFILT_READ"]

\* kqueue: the error IncludeFD returns for the outcome k of its kevent call
KqueueIncludeErr(fd64, k) ==
    IF k.err # "nil" /\ k.err # "EINTR"
    THEN IF k.err = "EBADF" THEN ErrClosed ELSE Wrapped(k.err)
    ELSE IF k.n # 0 /\ k.event.Ident = fd64 /\ "EV_ERROR" \in k.event.Flags
    THEN Wrapped(k.event.Data)
    ELSE NilErr

KqueueIncludeFD(fd, sig) ==
    LET fd64 == Ident64(fd)
        k == KeventChange(KqueueIncludeChange(fd64), sig)
        err == KqueueIncludeErr(fd64, k)
    IN  /\ backend = "kqueue"
        /\ pc = "idle"
        /\ members' = k.members
        /\ rdlist' = k.rdlist
        /\ included' = Noted(fd, err, TRUE)
        /\ Returns("IncludeFD", fd, 0, 0, err)
        /\ UNCHANGED <<backend, queueOpen, handle, roundRobin, pending>>

\* epoll: the operation IncludeFD asks of epoll_ctl
EpollIncludeOp == "EPOLL_CTL_ADD"

\* IncludeFD without the EEXIST case: a duplicate is reported as an error
EpollIncludeErrNoExist(errno) ==
    IF errno = "nil" THEN NilErr
    ELSE IF errno = "EPERM" THEN ErrWatchable
    ELSE Wrapped(errno)

\* epoll: the error IncludeFD returns for the errno of its epoll_ctl call
EpollIncludeErr(errno) ==
    IF errno \in {"nil", "EEXIST"} THEN NilErr
    ELSE IF errno = "EPERM" THEN ErrWatchable
    ELSE Wrapped(errno)

EpollIncludeFD(fd) ==
    LET c == EpollCtl(EpollIncludeOp, EpollFd(fd))
        err == EpollIncludeErr(c.errno)
    IN  /\ backend = "epoll"
        /\ pc = "idle"
        /\ members' = c.members
        /\ rdlist' = c.rdlist
        /\ included' = Noted(fd, err, TRUE)
        /\ Returns("IncludeFD", fd, 0, 0, err)
        /\ UNCHANGED <<backend, queueOpen, handle, roundRobin, pending>>

\* -------------------------------------------------------------- ExcludeFD
\* the change of IncludeFD submitted by ExcludeFD: EV_ADD in place of EV_DELETE
KqueueExcludeChangeAdds(fd64) ==
    [Ident |-> fd64, Flags |-> "EV_ADD", Filter |-> "EVFILT_READ"]

\* kqueue: events[0], the change ExcludeFD submits
KqueueExcludeChange(fd64) ==
    [Ident |-> fd64, Flags |-> "EV_DELETE", Filter |-> "EVFILT_READ"]

\* ExcludeFD without the ENOENT exemption: absence is reported as an error
KqueueExcludeErrNoEnoent(fd64, k) ==
    IF k.err # "nil" /\ k.err # "EINTR"
    THEN IF k.err = "EBADF" THEN ErrClosed ELSE Wrapped(k.err)
    ELSE IF k.n # 0 /\ k.event.Ident = fd64 /\ "EV_ERROR" \in k.event.Flags
    THEN Wrapped(k.event.Data)
    ELSE NilErr

\* kqueue: the error ExcludeFD returns for the outcome k of its kevent call
KqueueExcludeErr(fd64, k) ==
    IF k.err # "nil" /\ k.err # "EINTR"
    THEN IF k.err = "EBADF" THEN ErrClosed ELSE Wrapped(k.err)
    ELSE IF /\ k.n # 0 /\ k.event.Ident = fd64 /\ "EV_ERROR" \in k.event.Flags
            /\ k.event.Data # "ENOENT"
    THEN Wrapped(k.event.Data)
    ELSE NilErr

KqueueExcludeFD(fd, sig) ==
    LET fd64 == Ident64(fd)
        k == KeventChange(KqueueExcludeChange(fd64), sig)
        err == KqueueExcludeErr(fd64, k)
    IN  /\ backend = "kqueue"
        /\ pc = "idle"
        /\ members' = k.members
        /\ rdlist' = k.rdlist
        /\ included' = Noted(fd, err, FALSE)
        /\ Returns("ExcludeFD", fd, 0, 0, err)
        /\ UNCHANGED <<backend, queueOpen, handle, roundRobin, pending>>

\* epoll: the operation ExcludeFD asks of epoll_ctl
EpollExcludeOp == "EPOLL_CTL_DEL"

\* epoll: the error ExcludeFD returns for the errno of its epoll_ctl call
EpollExcludeErr(errno) ==
    IF errno \in {"nil", "ENOENT"} THEN NilErr
    ELSE IF errno = "EPERM" THEN ErrWatchable
    ELSE Wrapped(errno)

EpollExcludeFD(fd) ==
    LET c == EpollCtl(EpollExcludeOp, EpollFd(fd))
        err == EpollExcludeErr(c.errno)
    IN  /\ backend = "epoll"
        /\ pc = "idle"
        /\ members' = c.members
        /\ rdlist' = c.rdlist
        /\ included' = Noted(fd, err, FALSE)
        /\ Returns("ExcludeFD", fd, 0, 0, err)
        /\ UNCHANGED <<backend, queueOpen, handle, roundRobin, pending>>

\* -------------------------------------------------------- AwaitFDWithRead
\* len(buf): the events one native wait can report
BufLen(be) == IF be = "kqueue" THEN 2 ELSE 1

\* the switch without its case 1: a single event is picked in round-robin
\* too, from a buffer whose second element is the zero value
KqueueSelectNoCaseOne(events, rr) ==
    LET next == WrapSigned(rr + 1, RRBits)
        buf == IF Len(events) = 1 THEN Append(events, ZeroKevent.Ident) ELSE events
    IN  [fd |-> IdentToFD(buf[(next % 2) + 1]), roundRobin |-> next]

\* the switch without round-robin: the first event read is returned
KqueueSelectFirst(events, rr) ==
    [fd |-> IdentToFD(events[1]), roundRobin |-> rr]

\* kqueue: the switch on bufN, for the events read into buf: the descriptor
\* returned and Watch.roundRobin after it
KqueueSelect(events, rr) ==
    IF Len(events) = 1
    THEN [fd |-> IdentToFD(events[1]), roundRobin |-> rr]
    ELSE LET next == WrapSigned(rr + 1, RRBits)
         IN  [fd |-> IdentToFD(events[(next % 2) + 1]), roundRobin |-> next]

\* epoll: int(buf[0].Fd)
EpollSelect(events, rr) ==
    [fd |-> EpollFd(events[1]), roundRobin |-> rr]

Select(be, events, rr) ==
    IF be = "kqueue" THEN KqueueSelect(events, rr) ELSE EpollSelect(events, rr)

\* EBADF from the native wait taken for its expiry
AwaitClosedErrTimeout(be) == ErrTimeout

\* the error of a native wait on a handle that is no queue (EBADF)
AwaitClosedErr(be) ==
    IF be = "kqueue" THEN ErrClosed ELSE Wrapped("EBADF")

\* the native wait returned n > 0 events: the call returns one descriptor
AwaitDeliver(scan, timeout, waited) ==
    LET sel == Select(backend, scan.events, roundRobin)
    IN  /\ rdlist' = scan.queue
        /\ roundRobin' = sel.roundRobin
        /\ pc' = "idle"
        /\ arg' = [op |-> "AwaitFDWithRead", fd |-> 0, timeout |-> timeout]
        /\ ret' = [fd |-> sel.fd, err |-> NilErr]
        /\ elapsed' = waited
        /\ nelapsed' = 0
        /\ intr' = 0
        /\ UNCHANGED <<backend, queueOpen, handle, members, pending,
                       included>>

\* AwaitFDWithRead(timeout) up to its return or to the point where the
\* native wait blocks: the timeout conversion, the first native call and,
\* when that returns at once, the switch on its result.
AwaitFDWithRead(timeout) ==
    LET scan == Scan(rdlist, BufLen(backend), pending)
    IN  /\ pc = "idle"
        /\ IF ~queueOpen
           THEN /\ Returns("AwaitFDWithRead", 0, timeout, 0, AwaitClosedErr(backend))
                /\ UNCHANGED <<backend, queueOpen, handle, roundRobin,
                               members, rdlist, pending, included>>
           ELSE IF scan.events # <<>>
           THEN AwaitDeliver(scan, timeout, 0)
           ELSE IF NativeTimeout(backend, timeout) = 0
           THEN /\ Returns("AwaitFDWithRead", 0, timeout, 0, ErrTimeout)
                /\ rdlist' = scan.queue
                /\ UNCHANGED <<backend, queueOpen, handle, roundRobin,
                               members, pending, included>>
           ELSE /\ pc' = "await"
                /\ arg' = [op |-> "AwaitFDWithRead", fd |-> 0, timeout |-> timeout]
                /\ ret' = ret
                /\ elapsed' = 0
                /\ nelapsed' = 0
                /\ intr' = 0
                /\ rdlist' = scan.queue
                /\ UNCHANGED <<backend, queueOpen, handle, roundRobin,
                               members, pending, included>>

\* the clock advances while the native wait is blocked: nothing is active
\* and its timeout has not expired
\* Followed as far as the call can tell: to the last expiry its retries allow,
\* or just past the requested timeout when the native wait is indefinite.
ClockCap(timeout, native) ==
    IF native >= 0 THEN (MaxIntr + 1) * native
    ELSE IF timeout > 0 THEN timeout + 1 ELSE 1

Tick ==
    /\ pc = "await"
    /\ Scan(rdlist, 1, pending).events = <<>>
    /\ LET native == NativeTimeout(backend, arg.timeout)
       IN  /\ native < 0 \/ nelapsed < native
           /\ elapsed < ClockCap(arg.timeout, native)
    /\ elapsed' = elapsed + 1
    /\ nelapsed' = nelapsed + 1
    /\ UNCHANGED <<backend, queueOpen, handle, roundRobin, members, rdlist,
                   pending, included, pc, arg, ret, intr>>

\* the blocked native wait fails with EINTR and the loop calls it again,
\* with the same timeout argument
AwaitInterrupted ==
    /\ pc = "await"
    /\ intr < MaxIntr
    /\ intr' = intr + 1
    /\ nelapsed' = 0
    /\ UNCHANGED <<backend, queueOpen, handle, roundRobin, members, rdlist,
                   pending, included, pc, arg, ret, elapsed>>

\* the blocked native wait returns events
AwaitWake ==
    LET scan == Scan(rdlist, BufLen(backend), pending)
    IN  /\ pc = "await"
        /\ scan.events # <<>>
        /\ AwaitDeliver(scan, arg.timeout, elapsed)

\* the expiry that wins over the events read: ErrTimeout although events
\* were returned
AwaitExpireDropsEvents ==
    LET native == NativeTimeout(backend, arg.timeout)
    IN  /\ pc = "await"
        /\ native >= 0
        /\ nelapsed >= native \/ rdlist # <<>>
        /\ pc' = "idle"
        /\ ret' = [fd |-> 0, err |-> ErrTimeout]
        /\ nelapsed' = 0
        /\ intr' = 0
        /\ UNCHANGED <<backend, queueOpen, handle, roundRobin, members,
                       rdlist, pending, included, arg, elapsed>>

\* the blocked native wait returns no event when its timeout expires
AwaitExpire ==
    LET scan == Scan(rdlist, BufLen(backend), pending)
        native == NativeTimeout(backend, arg.timeout)
    IN  /\ pc = "await"
        /\ scan.events = <<>>
        /\ native >= 0
        /\ nelapsed >= native
        /\ pc' = "idle"
        /\ ret' = [fd |-> 0, err |-> ErrTimeout]
        /\ rdlist' = scan.queue
        /\ nelapsed' = 0
        /\ intr' = 0
        /\ UNCHANGED <<backend, queueOpen, handle, roundRobin, members,
                       pending, included, arg, elapsed>>

\* ------------------------------------------------------------------ Close
\* close(2) of the queue handle: the kernel queue goes with its lists; a
\* handle that is no open file gives EBADF
KqueueCloseErr(errno) ==
    IF errno # "nil" /\ errno # "EBADF" THEN Wrapped(errno) ELSE NilErr

\* the epoll Close with the kqueue backend's exemption of EBADF
EpollCloseErrIgnoresBadf(errno) ==
    IF errno # "nil" /\ errno # "EBADF" THEN Wrapped(errno) ELSE NilErr

EpollCloseErr(errno) ==
    IF errno # "nil" THEN Wrapped(errno) ELSE NilErr

\* Close, with the errno of its close(2): whatever close(2) returns, the
\* handle number names no open file after it
CloseWith(errno) ==
    LET err == IF backend = "kqueue" THEN KqueueCloseErr(errno)
               ELSE EpollCloseErr(errno)
    IN  /\ pc = "idle"
        /\ queueOpen' = FALSE
        /\ handle' = "none"
        /\ members' = {}
        /\ rdlist' = <<>>
        /\ Returns("Close", 0, 0, 0, err)
        /\ UNCHANGED <<backend, roundRobin, pending, included>>

Close == CloseWith(IF queueOpen THEN "nil" ELSE "EBADF")

\* the failures of close(2) on an open file
CloseFailures == {"EINTR", "EIO"}

\* Close whose close(2) fails on the open queue
CloseFails ==
    /\ queueOpen
    /\ \E errno \in CloseFailures : CloseWith(errno)

\* ------------------------------------------------------- the environment
\* data is written to a descriptor's file: its entry, if any, becomes active
Write(fd) ==
    /\ ~pending[fd]
    /\ pending' = [pending EXCEPT ![fd] = TRUE]
    /\ rdlist' = IF fd \in members THEN Activate(rdlist, fd) ELSE rdlist
    /\ UNCHANGED <<backend, queueOpen, handle, roundRobin, members, included,
                   pc, arg, ret, elapsed, nelapsed, intr>>

\* the caller reads a descriptor empty; the kernel list is left as it is
Drain(fd) ==
    /\ pc = "idle"
    /\ pending[fd]
    /\ pending' = [pending EXCEPT ![fd] = FALSE]
    /\ UNCHANGED <<backend, queueOpen, handle, roundRobin, members, rdlist,
                   included, pc, arg, ret, elapsed, nelapsed, intr>>

\* ----------------------------------------------------- the specifications
\* after OpenWatch: an empty watch list, nothing written yet
InitWatch ==
    /\ backend \in {"kqueue", "epoll"}
    /\ queueOpen = TRUE
    /\ handle = "own"
    /\ roundRobin = 0
    /\ members = {}
    /\ rdlist = <<>>
    /\ included = {}
    /\ pc = "idle"
    /\ arg = [op |-> "OpenWatch", fd |-> 0, timeout |-> 0]
    /\ ret = [fd |-> 0, err |-> NilErr]
    /\ elapsed = 0
    /\ nelapsed = 0
    /\ intr = 0

Init ==
    /\ InitWatch
    /\ pending = [fd \in 1..NumFD |-> FALSE]

\* the timeouts the caller passes: indefinite, non-blocking, and one short
\* of a millisecond
Timeouts == {-1, 0, 1}

IncludeFD(fd) ==
    \/ \E sig \in BOOLEAN : KqueueIncludeFD(fd, sig)
    \/ EpollIncludeFD(fd)

ExcludeFD(fd) ==
    \/ \E sig \in BOOLEAN : KqueueExcludeFD(fd, sig)
    \/ EpollExcludeFD(fd)

Membership ==
    \E fd \in FDs \cup {BadFD} :
        \/ IncludeFD(fd)
        \/ ExcludeFD(fd)

Blocked ==
    \/ Tick
    \/ AwaitInterrupted
    \/ AwaitWake
    \/ AwaitExpire

Environment ==
    \E fd \in DOMAIN pending :
        \/ Write(fd)
        \/ Drain(fd)

Next ==
    \/ Membership
    \/ \E t \in Timeouts : AwaitFDWithRead(t)
    \/ Blocked
    \/ Close
    \/ Environment

Spec == Init /\ [][Next]_vars

\* Close with the failures of close(2)
NextClose ==
    \/ Next
    \/ CloseFails

SpecClose == Init /\ [][NextClose]_vars

\* Use after Close.  Close leaves the number in Watch.queueFD / Watch.epollFD
\* as it is; the operating system hands the lowest free number to the next
\* file opened, here the queue of another Watch, empty as OpenWatch makes it.
Reassign ==
    /\ handle = "none"
    /\ handle' = "other"
    /\ queueOpen' = TRUE
    /\ UNCHANGED <<backend, roundRobin, members, rdlist, pending, included,
                   pc, arg, ret, elapsed, nelapsed, intr>>

NextReuse ==
    \/ Next
    \/ Reassign

SpecReuse == Init /\ [][NextReuse]_vars

\* a Watch in use: the pipes of the given set are included, in the state
\* OpenWatch and an IncludeFD of each lead to, and the pipes of ready have
\* then been written to, in ascending order
InitIncluded(pipes, ready) ==
    /\ backend \in {"kqueue", "epoll"}
    /\ queueOpen = TRUE
    /\ handle = "own"
    /\ roundRobin = 0
    /\ members = pipes
    /\ included = pipes
    /\ pending = [fd \in pipes |-> fd \in ready]
    /\ rdlist = [i \in 1..Cardinality(ready) |-> i]
    /\ pc = "idle"
    /\ arg = [op |-> "OpenWatch", fd |-> 0, timeout |-> 0]
    /\ ret = [fd |-> 0, err |-> NilErr]
    /\ elapsed = 0
    /\ nelapsed = 0
    /\ intr = 0

\* The timing of the wait: nothing included, or one pipe, and every Duration
\* as the timeout.
InitTime ==
    \/ InitIncluded({}, {})
    \/ InitIncluded({1}, {})

NextTime ==
    \/ \E t \in Durations : AwaitFDWithRead(t)
    \/ Blocked
    \/ Environment

SpecTime == InitTime /\ [][NextTime]_vars

\* Fan-in: the caller waits again and again, reading the descriptor a wait
\* returned empty or not, while data keeps arriving.
DrainReturned ==
    /\ arg.op = "AwaitFDWithRead"
    /\ ret.err = NilErr
    /\ ret.fd \in DOMAIN pending
    /\ Drain(ret.fd)

NextFan ==
    \/ \E t \in Timeouts : AwaitFDWithRead(t)
    \/ Blocked
    \/ DrainReturned
    \/ \E fd \in DOMAIN pending : Write(fd)

\* the caller keeps waiting, and a wait runs to its return
WaitSteps ==
    \/ \E t \in Timeouts : AwaitFDWithRead(t)
    \/ Tick
    \/ AwaitWake
    \/ AwaitExpire

\* two pipes (NumFD of them), all written to
SpecFanIn ==
    /\ InitIncluded(1..NumFD, 1..NumFD)
    /\ [][NextFan]_vars
    /\ WF_vars(WaitSteps)

\* two pipes more
SpecFanWide ==
    /\ InitIncluded(1..(NumFD + 2), 1..(NumFD + 2))
    /\ [][NextFan]_vars
    /\ WF_vars(WaitSteps)

\* ============================================================== the claims
\* a step in which an AwaitFDWithRead call returns
AwaitReturn ==
    /\ pc' = "idle"
    /\ arg'.op = "AwaitFDWithRead"
    /\ \/ AwaitFDWithRead(arg'.timeout)
       \/ AwaitWake
       \/ AwaitExpire

\* the step is a call of AwaitFDWithRead(timeout), of IncludeFD(fd), of
\* ExcludeFD(fd)
AwaitCall(timeout) ==
    /\ arg'.op = "AwaitFDWithRead"
    /\ arg'.timeout = timeout
    /\ AwaitFDWithRead(timeout)

IncludeCall(fd) ==
    /\ arg'.op = "IncludeFD"
    /\ arg'.fd = fd
    /\ IncludeFD(fd)

ExcludeCall(fd) ==
    /\ arg'.op = "ExcludeFD"
    /\ arg'.fd = fd
    /\ ExcludeFD(fd)

\* the included descriptors with unread data
Ready == {fd \in included : HasData(pending, fd)}

\* C1: once ExcludeFD(fd) has returned nil, and until IncludeFD(fd) returns
\* nil again, no AwaitFDWithRead returns fd, whether fd has unread data or
\* not; and an AwaitFDWithRead that returns on an open Watch while no included
\* descriptor has unread data returns ErrTimeout.
C1_ExcludeEffective ==
    [][AwaitReturn =>
          /\ ret'.err = NilErr => ret'.fd \in included
          /\ (queueOpen /\ Ready = {}) => ret'.err = ErrTimeout]_vars

\* C1 happens: a descriptor with unread data was excluded, and the wait after
\* it timed out
C1_Witness ==
    /\ pc = "idle"
    /\ arg.op = "AwaitFDWithRead"
    /\ ret.err = ErrTimeout
    /\ \E fd \in DOMAIN pending : pending[fd] /\ fd \notin included
    /\ included # {}

\* C2: IncludeFD(fd) of a descriptor that is included on an open Watch returns
\* nil and leaves the membership as it is, in the caller's watch list and in
\* the kernel's interest list; no descriptor is on the kernel's active list
\* twice, so a wait finds it once.
C2_IncludeIdempotent ==
    [][\A fd \in FDs :
          (queueOpen /\ fd \in included /\ IncludeCall(fd)) =>
              /\ ret'.err = NilErr
              /\ included' = included
              /\ members' = members
              /\ NoDup(rdlist')]_vars

\* C2 happens: a redundant IncludeFD of a descriptor with unread data
\* returned nil
C2_Witness ==
    /\ pc = "idle"
    /\ arg.op = "IncludeFD"
    /\ ret.err = NilErr
    /\ arg.fd \in included
    /\ HasData(pending, arg.fd)
    /\ Len(rdlist) = Cardinality(members)
    /\ Cardinality(members) = 2

C4_ReturnsReadyMember ==
    [][(AwaitReturn /\ ret'.err = NilErr) =>
          /\ ret'.fd \in included
          /\ ret'.fd \in members
          /\ HasData(pending, ret'.fd)]_vars

\* C4 happens: a wait returned one of two ready members while a third
\* descriptor with unread data was not included
C4_Witness ==
    /\ pc = "idle"
    /\ arg.op = "AwaitFDWithRead"
    /\ ret.err = NilErr
    /\ ret.fd \in Ready
    /\ \E fd \in DOMAIN pending : pending[fd] /\ fd \notin included

\* C5 as claimed: an AwaitFDWithRead call on an open Watch, whatever its
\* timeout, returns at once, with nil, each included descriptor that has
\* unread data.
C5_AsClaimed ==
    [][\A fd \in FDs :
          (queueOpen /\ fd \in Ready /\ AwaitCall(arg'.timeout)) =>
              /\ pc' = "idle"
              /\ ret'.err = NilErr
              /\ ret'.fd = fd]_vars

\* C5, amended: while some included descriptor has unread data, an
\* AwaitFDWithRead call on an open Watch, whatever its timeout, returns at
\* once, with nil, an included descriptor that has unread data (that
\* descriptor, when it is the only one), and leaves the data and the
\* membership as they are, so that the next call does the same.
C5_LevelTriggered ==
    [][(queueOpen /\ Ready # {} /\ AwaitCall(arg'.timeout)) =>
          /\ pc' = "idle"
          /\ elapsed' = 0
          /\ ret'.err = NilErr
          /\ ret'.fd \in Ready
          /\ pending' = pending
          /\ included' = included
          /\ members' = members]_vars

\* C5 happens: an indefinite wait returned the only ready member at once
C5_Witness ==
    /\ pc = "idle"
    /\ arg.op = "AwaitFDWithRead"
    /\ arg.timeout < 0
    /\ ret.err = NilErr
    /\ Ready = {ret.fd}
    /\ Cardinality(included) = 2
    /\ elapsed = 0

\* C6: AwaitFDWithRead(0) on an open Watch with no included descriptor that
\* has unread data returns ErrTimeout without blocking.
C6_ZeroTimeoutPolls ==
    [][(queueOpen /\ Ready = {} /\ AwaitCall(0)) =>
          /\ pc' = "idle"
          /\ elapsed' = 0
          /\ ret'.err = ErrTimeout]_vars

\* C6 happens: a non-blocking wait on members without data returned
\* ErrTimeout
C6_Witness ==
    /\ pc = "idle"
    /\ arg.op = "AwaitFDWithRead"
    /\ arg.timeout = 0
    /\ ret.err = ErrTimeout
    /\ included # {}
    /\ Ready = {}
    /\ queueOpen

\* C7 as claimed: an AwaitFDWithRead with a positive timeout on an open Watch
\* with nothing included returns ErrTimeout, and not before the timeout has
\* elapsed.
C7_AsClaimed ==
    [][(AwaitReturn /\ arg'.timeout > 0 /\ queueOpen /\ included = {}) =>
          /\ ret'.err = ErrTimeout
          /\ elapsed' >= arg'.timeout]_vars

\* C8 as claimed: when the wait before returned ErrTimeout, an
\* AwaitFDWithRead on an open Watch that returns while an included
\* descriptor has unread data returns that descriptor, with nil.
C8_AsClaimed ==
    [][\A fd \in FDs :
          (AwaitReturn /\ ret.err = ErrTimeout /\ queueOpen /\ fd \in Ready) =>
              /\ ret'.err = NilErr
              /\ ret'.fd = fd]_vars

\* C8, amended: when the wait before returned ErrTimeout, an AwaitFDWithRead
\* on an open Watch that returns while some included descriptor has unread
\* data returns nil and an included descriptor with unread data: that
\* descriptor, when it is the only one.
C8_TimeoutRecover ==
    [][(AwaitReturn /\ ret.err = ErrTimeout /\ queueOpen /\ Ready # {}) =>
          /\ ret'.err = NilErr
          /\ ret'.fd \in Ready]_vars

\* C8 happens: after a wait that timed out, the next wait blocked, and data
\* arrived for the one included descriptor before its timeout expired
C8_Witness ==
    /\ pc = "await"
    /\ ret.err = ErrTimeout
    /\ arg.timeout > 0
    /\ elapsed > 0
    /\ \E fd \in FDs : Ready = {fd} /\ rdlist = <<fd>>

\* the last wait that returned has returned descriptor fd
Returned(fd) ==
    /\ arg.op = "AwaitFDWithRead"
    /\ ret.err = NilErr
    /\ ret.fd = fd

\* C9: while the caller keeps waiting, no descriptor remains for ever one of
\* exactly two included descriptors with unread data without being returned:
\* of two ready descriptors, each is returned again and again.
C9_FanInFair ==
    \A f \in 1..NumFD :
        []<>(~(f \in Ready /\ Cardinality(Ready) = 2) \/ Returned(f))

\* C9 happens: a wait returned one of two ready descriptors, and the other is
\* first in line for the next wait
C9_Witness ==
    /\ pc = "idle"
    /\ Cardinality(Ready) = 2
    /\ \E f \in Ready : Returned(f) /\ rdlist[Len(rdlist)] = f
    /\ Len(rdlist) = 2

\* C10 as claimed: while the caller keeps waiting, no descriptor remains for
\* ever one of three or more included descriptors with unread data without
\* being returned.
C10_AsClaimed ==
    \A f \in 1..(NumFD + 2) :
        []<>(~(f \in Ready /\ Cardinality(Ready) >= 3) \/ Returned(f))

\* the timeout in whole native units: a positive timeout rounded up to the
\* unit of the backend's native wait, nanoseconds (kqueue) or milliseconds
\* (epoll)
RoundedUp(be, timeout) ==
    IF be = "kqueue" THEN timeout
    ELSE ((timeout + Millisecond - 1) \div Millisecond) * Millisecond

\* C11 as claimed: an AwaitFDWithRead with a positive timeout whose native
\* wait was interrupted has, when it returns, been blocked for no longer than
\* the timeout rounded up to the native unit.
C11_AsClaimed ==
    [][(AwaitReturn /\ arg'.timeout > 0 /\ intr > 0) =>
          elapsed' <= RoundedUp(backend, arg'.timeout)]_vars

\* C12 as claimed: an AwaitFDWithRead that was interrupted does not return
\* EINTR, and it returns what the uninterrupted call would: once the time the
\* uninterrupted call would have waited at most is over, that is ErrTimeout.
C12_AsClaimed ==
    [][(AwaitReturn /\ intr > 0) =>
          /\ ret'.err.errno # "EINTR"
          /\ LET native == NativeTimeout(backend, arg'.timeout)
             IN  (native >= 0 /\ elapsed' > native) => ret'.err = ErrTimeout]_vars

\* C13 as claimed: the timeout the epoll backend hands to epoll_wait(2), in
\* milliseconds, is -1 for a negative Duration and otherwise not negative, not
\* shorter than the Duration, and 0 only for 0.
C13_AsClaimed ==
    (backend = "epoll" /\ arg.op = "AwaitFDWithRead") =>
        LET d == arg.timeout
            m == WrapSigned(EpollMsec(d), CIntBits)
        IN  IF d < 0 THEN m = -1
            ELSE /\ m >= 0
                 /\ m * Millisecond >= d
                 /\ (m = 0) <=> (d = 0)

\* C14 as claimed: an AwaitFDWithRead with a negative timeout does not return
\* ErrTimeout, and what it returns on an open Watch is an included descriptor
\* with unread data; one with a zero or positive timeout is not blocked past
\* its expiry, the timeout rounded up to the native unit after the native
\* wait began.
C14_AsClaimed ==
    /\ (pc = "idle" /\ arg.op = "AwaitFDWithRead" /\ arg.timeout < 0) =>
           ret.err # ErrTimeout
    /\ (pc = "await" /\ arg.timeout >= 0) =>
           nelapsed <= RoundedUp(backend, arg.timeout)

\* C15 as claimed: once Close has returned, no call on the Watch acts on
\* another kernel object: while the handle number names another Watch's
\* queue, the caller's steps leave that queue open, and its interest list and
\* active list as they are.
C15_AsClaimed ==
    [][(handle = "other" /\ pending' = pending) =>
          /\ queueOpen'
          /\ members' = members
          /\ rdlist' = rdlist]_vars

\* C16: on a Watch whose handle names no open file, AwaitFDWithRead returns
\* ErrClosed on the kqueue backend and the wrapped error of epoll_wait(2) on
\* the epoll backend, and on the kqueue backend IncludeFD and ExcludeFD return
\* ErrClosed and leave the watch list as it is; none returns a descriptor or
\* ErrTimeout.
C16_ClosedReporting ==
    [][~queueOpen =>
          /\ AwaitReturn =>
                 /\ ret'.fd = 0
                 /\ ret'.err = IF backend = "kqueue" THEN ErrClosed
                               ELSE Wrapped("EBADF")
          /\ \A fd \in FDs \cup {BadFD} :
                 (backend = "kqueue" /\ (IncludeCall(fd) \/ ExcludeCall(fd))) =>
                     /\ ret'.err = ErrClosed
                     /\ included' = included]_vars

\* C16 happens: after Close, with a descriptor with unread data still on the
\* caller's watch list, a wait returned the closed-queue error
C16_Witness ==
    /\ ~queueOpen
    /\ pc = "idle"
    /\ arg.op = "AwaitFDWithRead"
    /\ ret.err \in {ErrClosed, Wrapped("EBADF")}
    /\ Ready # {}

\* a step of an AwaitFDWithRead call, from the call to its return
AwaitStep ==
    /\ arg'.op = "AwaitFDWithRead"
    /\ \/ AwaitCall(arg'.timeout)
       \/ Tick
       \/ AwaitInterrupted
       \/ AwaitWake
       \/ AwaitExpire

\* C17: no step of AwaitFDWithRead, whatever the call returns, changes the
\* watch list, the kernel's interest list, the unread data of any descriptor
\* or the state of the queue handle; and on an open Watch every included
\* descriptor with unread data is on the kernel's active list after it, to be
\* found by the next wait.
C17_AwaitPureQuery ==
    [][AwaitStep =>
          /\ included' = included
          /\ members' = members
          /\ pending' = pending
          /\ queueOpen' = queueOpen
          /\ queueOpen => \A fd \in Ready : fd \in Range(rdlist')]_vars

\* C17 happens: a wait returned one of two ready descriptors, and both are
\* included, unread and active after it
C17_Witness ==
    /\ pc = "idle"
    /\ arg.op = "AwaitFDWithRead"
    /\ ret.err = NilErr
    /\ queueOpen
    /\ Cardinality(Ready) = 2
    /\ Ready = Range(rdlist)
    /\ included = members

\* the events the native wait of AwaitFDWithRead reads into buf
Events == Scan(rdlist, BufLen(backend), pending).events

C19_CloseOutcome ==
    [][arg'.op = "Close" =>
          /\ ~queueOpen'
          /\ (Close /\ queueOpen) => ret'.err = NilErr
          /\ (Close /\ ~queueOpen) =>
                 ret'.err = IF backend = "kqueue" THEN NilErr
                            ELSE Wrapped("EBADF")
          /\ \A errno \in CloseFailures :
                 (queueOpen /\ CloseWith(errno)) => ret'.err = Wrapped(errno)]_vars

\* C19 happens: a second Close, on the released handle, returned
C19_Witness ==
    /\ pc = "idle"
    /\ arg.op = "Close"
    /\ ~queueOpen
    /\ ret.err = IF backend = "kqueue" THEN NilErr ELSE Wrapped("EBADF")
    /\ backend = "epoll" \/ included # {}

\* a step in which a call of IncludeFD or ExcludeFD naming fd returns
MembershipCall(fd) ==
    \/ IncludeCall(fd)
    \/ ExcludeCall(fd)

\* C20: on an open Watch the kernel's interest list is the set of descriptors
\* whose last IncludeFD or ExcludeFD that returned nil was an IncludeFD (the
\* watch list the caller knows); a call naming fd changes the membership of
\* no other descriptor; a call that returns an error changes no membership;
\* and every member with unread data, one included again after an ExcludeFD
\* too, is on the kernel's active list, where a wait finds it: a wait that
\* returns while members have unread data returns one of them.
C20_MembershipIsSet ==
    [][/\ queueOpen' =>
              /\ members' = included'
              /\ \A fd \in members' :
                     HasData(pending', fd) => fd \in Range(rdlist')
       /\ (queueOpen /\ MembershipCall(arg'.fd)) =>
              LET fd == arg'.fd
                  nil == ret'.err = NilErr
              IN  /\ members' \ {fd} = members \ {fd}
                  /\ ~nil => members' = members
                  /\ (nil /\ arg'.op = "IncludeFD") => fd \in members'
                  /\ (nil /\ arg'.op = "ExcludeFD") => fd \notin members'
       /\ (queueOpen /\ Ready # {} /\ AwaitReturn) =>
              /\ ret'.err = NilErr
              /\ ret'.fd \in Ready]_vars

\* C20 happens: an IncludeFD of a descriptor with unread data returned nil;
\* the descriptor is a member and active, beside another member with unread
\* data
C20_Witness ==
    /\ queueOpen
    /\ pc = "idle"
    /\ arg.op = "IncludeFD"
    /\ ret.err = NilErr
    /\ HasData(pending, arg.fd)
    /\ arg.fd \in members
    /\ arg.fd \in Range(rdlist)
    /\ Cardinality(members) = 2
    /\ \A fd \in members : HasData(pending, fd)

=============================================================================
